---- MODULE Spec2Model ----
(***************************************************************************)
(* Model of the document-to-annotation pipeline: src/main.py               *)
(* (generate_annotation and the three-format extractor) and src/extract.py *)
(* (the four-format extractor, generate_title_from_file, process_folder).  *)
(*                                                                         *)
(* A Python str is a sequence of Unicode code points (integers), a bytes   *)
(* value a sequence of byte values.  Python's None is the value None.      *)
(* A float generation parameter (length_penalty) is kept in tenths.        *)
(***************************************************************************)
EXTENDS Integers, Sequences, FiniteSets, TLC

\* Python's None, a value that is no str: a sequence holding no code point
None == <<-1>>
\* no exception
NoExc == "NoException"

(***************************************************************************)
(* Bounds of the model.                                                    *)
(***************************************************************************)
\* pieces concatenated to build a decoded model output
MaxPieces == 3
\* small word ceilings tried against every decoded output: 1..MaxWordsGen
MaxWordsGen == 3
\* word ceilings tried for the parameter derivation: -MaxWordsParam..MaxWordsParam
MaxWordsParam == 60
\* bytes of a TXT file
MaxBytes == 3
\* pages of a PDF
MaxPages == 3
\* files in the folder given to process_folder
MaxFiles == 2

(***************************************************************************)
(* Python str primitives.                                                  *)
(***************************************************************************)
Min(a, b) == IF a <= b THEN a ELSE b
Max(a, b) == IF a >= b THEN a ELSE b

\* str.isspace() of one character
IsSpace(c) ==
    c \in {9, 10, 11, 12, 13, 28, 29, 30, 31, 32, 133, 160, 5760, 8232, 8233,
           8239, 8287, 12288} \cup (8192..8202)

\* s[:n], for either sign of n
Take(s, n) ==
    IF n >= 0 THEN SubSeq(s, 1, Min(n, Len(s)))
    ELSE SubSeq(s, 1, Max(0, Len(s) + n))

Drop(s, n) == SubSeq(s, n + 1, Len(s))

RECURSIVE lstrip_in(_, _)
lstrip_in(s, chars) ==
    IF s # <<>> /\ s[1] \in chars THEN lstrip_in(Tail(s), chars) ELSE s

RECURSIVE rstrip_in(_, _)
rstrip_in(s, chars) ==
    IF s # <<>> /\ s[Len(s)] \in chars
    THEN rstrip_in(SubSeq(s, 1, Len(s) - 1), chars) ELSE s

SpaceIn(s) == {s[i] : i \in {j \in 1..Len(s) : IsSpace(s[j])}}

\* s.strip()
strip(s) == rstrip_in(lstrip_in(s, SpaceIn(s)), SpaceIn(s))

\* s.rstrip(chars)
rstrip(s, chars) == rstrip_in(s, {chars[i] : i \in 1..Len(chars)})

\* s.startswith(p)
startswith(s, p) == Len(s) >= Len(p) /\ SubSeq(s, 1, Len(p)) = p

\* s.replace(old, new): non-overlapping occurrences, left to right
RECURSIVE replace(_, _, _)
replace(s, old, new) ==
    IF s = <<>> THEN <<>>
    ELSE IF startswith(s, old) THEN new \o replace(Drop(s, Len(old)), old, new)
    ELSE <<s[1]>> \o replace(Tail(s), old, new)

\* s.split(sep) for a one-character sep: every separator ends a fragment
RECURSIVE split_on(_, _, _)
split_on(s, sep, cur) ==
    IF s = <<>> THEN <<cur>>
    ELSE IF s[1] = sep THEN <<cur>> \o split_on(Tail(s), sep, <<>>)
    ELSE split_on(Tail(s), sep, Append(cur, s[1]))

split_sep(s, sep) == split_on(s, sep, <<>>)

\* s.split(): runs of whitespace separate the words, no empty word
RECURSIVE split_ws(_, _)
split_ws(s, cur) ==
    IF s = <<>> THEN (IF cur = <<>> THEN <<>> ELSE <<cur>>)
    ELSE IF IsSpace(s[1])
         THEN (IF cur = <<>> THEN <<>> ELSE <<cur>>) \o split_ws(Tail(s), <<>>)
    ELSE split_ws(Tail(s), Append(cur, s[1]))

split(s) == split_ws(s, <<>>)

\* sep.join(parts)
RECURSIVE join(_, _)
join(sep, parts) ==
    IF parts = <<>> THEN <<>>
    ELSE IF Len(parts) = 1 THEN parts[1]
    ELSE parts[1] \o sep \o join(sep, Tail(parts))

(***************************************************************************)
(* Literals of src/main.py.                                                *)
(***************************************************************************)
\* "Заголовок документа:"
PrefixDocument ==
    <<1047, 1072, 1075, 1086, 1083, 1086, 1074, 1086, 1082, 32, 1076, 1086,
      1082, 1091, 1084, 1077, 1085, 1090, 1072, 58>>
\* "Заголовок:"
PrefixShort == <<1047, 1072, 1075, 1086, 1083, 1086, 1074, 1086, 1082, 58>>
\* "Текст не найден"
NoTextSentinel ==
    <<1058, 1077, 1082, 1089, 1090, 32, 1085, 1077, 32, 1085, 1072, 1081,
      1076, 1077, 1085>>
\* "Ошибка генерации"
GenerationErrorSentinel ==
    <<1054, 1096, 1080, 1073, 1082, 1072, 32, 1075, 1077, 1085, 1077, 1088,
      1072, 1094, 1080, 1080>>

(***************************************************************************)
(* Exceptions: the kinds the collaborators raise, and Python's             *)
(* isinstance over them.                                                   *)
(***************************************************************************)
ExceptionKinds ==
    {"UnicodeDecodeError", "FileNotFoundError", "OSError", "RuntimeError"}

IsInstance(kind, cls) ==
    \/ cls = "Exception"
    \/ kind = cls
    \/ cls = "OSError" /\ kind = "FileNotFoundError"
    \/ cls = "ValueError" /\ kind = "UnicodeDecodeError"

(***************************************************************************)
(* generate_annotation (src/main.py).                                      *)
(***************************************************************************)
\* if not text or len(text.strip()) == 0
is_blank_unstripped(text) == text = None \/ text = <<>>
is_blank(text) == text = None \/ text = <<>> \/ Len(strip(text)) = 0

\* the tiers of max_length and length_penalty (in tenths)
generation_tier_strict(max_words) ==
    IF max_words < 15 THEN [max_length |-> 40, length_penalty |-> 12]
    ELSE IF max_words < 25 THEN [max_length |-> 55, length_penalty |-> 10]
    ELSE IF max_words < 35 THEN [max_length |-> 70, length_penalty |-> 9]
    ELSE [max_length |-> 85, length_penalty |-> 8]
generation_tier(max_words) ==
    IF max_words <= 15 THEN [max_length |-> 40, length_penalty |-> 12]
    ELSE IF max_words <= 25 THEN [max_length |-> 55, length_penalty |-> 10]
    ELSE IF max_words <= 35 THEN [max_length |-> 70, length_penalty |-> 9]
    ELSE [max_length |-> 85, length_penalty |-> 8]

\* int(x) of the rational num/den, den > 0: truncation toward zero
IntTrunc(num, den) ==
    IF num >= 0 THEN num \div den ELSE -((-num) \div den)

\* min_length=max(15, int(max_words * 0.3))
min_length_floor12(max_words) == Max(12, IntTrunc(3 * max_words, 10))
min_length(max_words) == Max(15, IntTrunc(3 * max_words, 10))

\* context_length = min(500 + (max_words * 10), 1000)
context_length(max_words) == Min(500 + (max_words * 10), 1000)

\* title.replace("Заголовок документа:", "").replace("Заголовок:", "").strip()
strip_prefixes(decoded) ==
    strip(replace(replace(decoded, PrefixDocument, <<>>), PrefixShort, <<>>))

\* the first-sentence rule applied to the cleaned title
first_sentence_min4(title, max_words) ==
    LET sentences == split_sep(title, 46)
        first == strip(sentences[1])
        two == strip(join(<<46, 32>>, Take(sentences, 2)))
    IN  IF Len(sentences) > 1
        THEN IF Len(split(first)) >= 4 THEN first
             ELSE IF Len(split(two)) <= max_words THEN two
             ELSE title
        ELSE title
first_sentence(title, max_words) ==
    LET sentences == split_sep(title, 46)
        first == strip(sentences[1])
        two == strip(join(<<46, 32>>, Take(sentences, 2)))
    IN  IF Len(sentences) > 1
        THEN IF Len(split(first)) >= 5 THEN first
             ELSE IF Len(split(two)) <= max_words THEN two
             ELSE title
        ELSE title

\* words = title.split(); title = " ".join(words[:max_words]) when too long
truncate_words_off_by_one(title, max_words) ==
    LET words == split(title)
    IN  IF Len(words) > max_words + 1
        THEN join(<<32>>, Take(words, max_words + 1)) ELSE title
truncate_words(title, max_words) ==
    LET words == split(title)
    IN  IF Len(words) > max_words
        THEN join(<<32>>, Take(words, max_words)) ELSE title

\* the post-processing of the decoded output, lines 181-200
postprocess(decoded, max_words) ==
    LET cleaned == strip_prefixes(decoded)
        sentence == first_sentence(cleaned, max_words)
        undotted == rstrip(sentence, <<46, 32>>)
    IN  strip(truncate_words(undotted, max_words))

\* the steps of the try block, in program order
GenSteps ==
    <<"tokenizer_load", "model_load", "tokenize", "generate", "decode",
      "postprocess">>

StepIndex(step) == CHOOSE i \in 1..Len(GenSteps) : GenSteps[i] = step

\* whether the step ran to completion before the fault (if any) struck
Completed(step, fault) ==
    fault = "none" \/ StepIndex(step) < StepIndex(fault)

\* except Exception as e
generation_handler_catches_oserror(kind) == IsInstance(kind, "OSError")
generation_handler_catches(kind) == IsInstance(kind, "Exception")

\* One call.  fault names the step that raises (or "none"), kind what it
\* raises; the result records the return value, the exception that left the
\* function (or NoExc), and what the call did to the collaborators:
\* generate_calls holds the keyword arguments of each model.generate call.
generate_annotation(text, max_words, decoded_out, fault, kind) ==
    IF is_blank(text)
    THEN [ret |-> NoTextSentinel, raised |-> NoExc, caught |-> FALSE,
          tokenizer_loaded |-> FALSE, model_loaded |-> FALSE,
          generate_calls |-> <<>>, context |-> None]
    ELSE LET tier == generation_tier(max_words)
             effects ==
                 [tokenizer_loaded |-> Completed("tokenizer_load", fault),
                  model_loaded |-> Completed("model_load", fault),
                  context |->
                      IF Completed("model_load", fault)
                      THEN Take(text, context_length(max_words)) ELSE None,
                  generate_calls |->
                      IF Completed("tokenize", fault)
                      THEN <<[max_length |-> tier.max_length,
                              min_length |-> min_length(max_words),
                              num_beams |-> 3,
                              length_penalty |-> tier.length_penalty,
                              no_repeat_ngram_size |-> 2]>>
                      ELSE <<>>]
         IN  IF fault = "none"
             THEN [ret |-> postprocess(decoded_out, max_words),
                   raised |-> NoExc, caught |-> FALSE] @@ effects
             ELSE IF generation_handler_catches(kind)
             THEN [ret |-> GenerationErrorSentinel, raised |-> NoExc,
                   caught |-> TRUE] @@ effects
             ELSE [ret |-> None, raised |-> kind, caught |-> FALSE] @@ effects

(***************************************************************************)
(* Paths (pathlib, os.path) and the file system: a function from the       *)
(* paths that exist to the content of the file there.                      *)
(***************************************************************************)
LastIndexOf(s, c) ==
    LET at == {i \in 1..Len(s) : s[i] = c}
    IN  IF at = {} THEN 0 ELSE CHOOSE i \in at : \A j \in at : j <= i

\* os.path.basename / Path.name
basename(p) == Drop(p, LastIndexOf(p, 47))

\* os.path.dirname
dirname(p) ==
    LET i == LastIndexOf(p, 47)
    IN  IF i = 0 THEN <<>> ELSE IF i = 1 THEN <<47>> ELSE Take(p, i - 1)

\* Path(p).suffix: from the last dot of the name, unless it leads or ends it
suffix(p) ==
    LET name == basename(p)
        i == LastIndexOf(name, 46)
    IN  IF 1 < i /\ i < Len(name) THEN Drop(name, i - 1) ELSE <<>>

\* Path(p).stem
stem(p) ==
    LET name == basename(p)
    IN  Take(name, Len(name) - Len(suffix(p)))

lower_char(c) ==
    IF (65 <= c /\ c <= 90) \/ (1040 <= c /\ c <= 1071) THEN c + 32 ELSE c
upper_char(c) ==
    IF (97 <= c /\ c <= 122) \/ (1072 <= c /\ c <= 1103) THEN c - 32 ELSE c

\* str.lower, str.upper
lower(s) == [i \in 1..Len(s) |-> lower_char(s[i])]
upper(s) == [i \in 1..Len(s) |-> upper_char(s[i])]

endswith(s, e) == Len(s) >= Len(e) /\ Drop(s, Len(s) - Len(e)) = e

FsWrite(fs, p, content) ==
    [q \in DOMAIN fs \cup {p} |-> IF q = p THEN content ELSE fs[q]]
FsRemove(fs, p) == [q \in DOMAIN fs \ {p} |-> fs[q]]

\* ".pdf", ".docx", ".doc", ".txt"
ExtPdf == <<46, 112, 100, 102>>
ExtDocx == <<46, 100, 111, 99, 120>>
ExtDoc == <<46, 100, 111, 99>>
ExtTxt == <<46, 116, 120, 116>>

(***************************************************************************)
(* The codecs open() decodes with.  Each returns [ok, text].               *)
(***************************************************************************)
\* bytes a UTF-8 sequence led by b needs; 0 for a byte that cannot lead
Utf8Need(b) ==
    IF b < 128 THEN 1
    ELSE IF 194 <= b /\ b <= 223 THEN 2
    ELSE IF 224 <= b /\ b <= 239 THEN 3
    ELSE IF 240 <= b /\ b <= 244 THEN 4
    ELSE 0

\* whether c may be the idx-th byte of a sequence led by lead
Utf8ContOk(lead, idx, c) ==
    IF idx > 2 THEN 128 <= c /\ c <= 191
    ELSE IF lead = 224 THEN 160 <= c /\ c <= 191
    ELSE IF lead = 237 THEN 128 <= c /\ c <= 159
    ELSE IF lead = 240 THEN 144 <= c /\ c <= 191
    ELSE IF lead = 244 THEN 128 <= c /\ c <= 143
    ELSE 128 <= c /\ c <= 191

\* how many continuation bytes of the sequence at the head of s are present
RECURSIVE Utf8ContCount(_, _)
Utf8ContCount(s, idx) ==
    IF idx > Utf8Need(s[1]) \/ idx > Len(s) THEN 0
    ELSE IF Utf8ContOk(s[1], idx, s[idx]) THEN 1 + Utf8ContCount(s, idx + 1)
    ELSE 0

Utf8CodePoint(s, need) ==
    IF need = 1 THEN s[1]
    ELSE IF need = 2 THEN (s[1] - 192) * 64 + (s[2] - 128)
    ELSE IF need = 3
         THEN (s[1] - 224) * 4096 + (s[2] - 128) * 64 + (s[3] - 128)
    ELSE (s[1] - 240) * 262144 + (s[2] - 128) * 4096 + (s[3] - 128) * 64
         + (s[4] - 128)

\* bytes.decode("utf-8", errors): strict fails at the first bad sequence,
\* ignore drops it (the lead and the continuation bytes it had) and goes on
RECURSIVE Utf8Decode(_, _)
Utf8Decode(s, errors) ==
    IF s = <<>> THEN [ok |-> TRUE, text |-> <<>>]
    ELSE LET need == Utf8Need(s[1])
             have == IF need = 0 THEN 0 ELSE 1 + Utf8ContCount(s, 2)
         IN  IF need > 0 /\ have = need
             THEN LET rest == Utf8Decode(Drop(s, need), errors)
                  IN  [ok |-> rest.ok,
                       text |-> <<Utf8CodePoint(s, need)>> \o rest.text]
             ELSE IF errors = "ignore"
             THEN Utf8Decode(Drop(s, Max(1, have)), errors)
             ELSE [ok |-> FALSE, text |-> <<>>]

\* cp1251: ASCII, the letters 0xC0..0xFF, 0x9F and the undefined byte 0x98;
\* the other high bytes are outside the bytes modelled
Cp1251Defined(b) == b # 152
Cp1251Char(b) ==
    IF b >= 192 THEN 1040 + (b - 192) ELSE IF b = 159 THEN 1119 ELSE b

\* koi8-r defines every byte; the table is given for the bytes modelled
Koi8rChar(b) ==
    CASE b = 152 -> 8804
      [] b = 159 -> 247
      [] b = 208 -> 1087
      [] b = 224 -> 1070
      [] OTHER -> b

Decode(s, encoding, errors) ==
    CASE encoding = "utf-8" -> Utf8Decode(s, errors)
      [] encoding = "cp1251" ->
            IF \A i \in 1..Len(s) : Cp1251Defined(s[i])
            THEN [ok |-> TRUE, text |-> [i \in 1..Len(s) |-> Cp1251Char(s[i])]]
            ELSE [ok |-> FALSE, text |-> <<>>]
      [] encoding = "koi8-r" ->
            [ok |-> TRUE, text |-> [i \in 1..Len(s) |-> Koi8rChar(s[i])]]
      [] encoding = "iso-8859-1" -> [ok |-> TRUE, text |-> s]

\* text mode of open(): "\r\n" and "\r" are read as "\n"
universal_newlines(text) == replace(replace(text, <<13, 10>>, <<10>>), <<13>>, <<10>>)

(***************************************************************************)
(* Outcomes of a call: the value returned, the exception that left it (or  *)
(* NoExc), the file system after it, and for a read of a text file the     *)
(* encoding and the error mode that decoded it.                            *)
(***************************************************************************)
Return(v, fs) ==
    [ret |-> v, raised |-> NoExc, fs |-> fs, encoding |-> "", errors |-> ""]
Raise(kind, fs) ==
    [ret |-> None, raised |-> kind, fs |-> fs, encoding |-> "", errors |-> ""]

\* except Exception as e
catches_Exception_oserror(kind) == IsInstance(kind, "OSError")
catches_Exception(kind) == IsInstance(kind, "Exception")

\* try: body / except Exception: return None
\* (the outcome of the body is bound once, as o)
except_return_None(r) ==
    CHOOSE x \in {IF o.raised # NoExc /\ catches_Exception(o.raised)
                  THEN [o EXCEPT !.ret = None, !.raised = NoExc] ELSE o :
                  o \in {r}} : TRUE

(***************************************************************************)
(* extract_text_from_txt.  env.open_fault is the exception open() raises   *)
(* on an existing file (or NoExc).                                         *)
(***************************************************************************)
\* with open(path, 'r', encoding=encoding, errors=errors) as f: f.read()
open_read(path, fs, env, encoding, errors) ==
    IF path \notin DOMAIN fs THEN Raise("FileNotFoundError", fs)
    ELSE IF env.open_fault # NoExc THEN Raise(env.open_fault, fs)
    ELSE LET d == Decode(fs[path], encoding, errors)
         IN  IF d.ok
             THEN [Return(universal_newlines(d.text), fs)
                      EXCEPT !.encoding = encoding, !.errors = errors]
             ELSE Raise("UnicodeDecodeError", fs)

encodings_cp1251_first == <<"cp1251", "utf-8", "koi8-r", "iso-8859-1">>
encodings == <<"utf-8", "cp1251", "koi8-r", "iso-8859-1">>
main_encodings == <<"utf-8", "cp1251", "koi8-r">>

\* the for loop over the encodings, then the read that ignores errors
RECURSIVE try_encodings(_, _, _, _, _)
try_encodings(encs, i, path, fs, env) ==
    IF i > Len(encs) THEN open_read(path, fs, env, "utf-8", "ignore")
    ELSE LET r == open_read(path, fs, env, encs[i], "strict")
         IN  IF r.raised # NoExc /\ IsInstance(r.raised, "UnicodeDecodeError")
             THEN try_encodings(encs, i + 1, path, fs, env)
             ELSE r

extract_text_from_txt(txt_path, fs, env) ==
    except_return_None(try_encodings(encodings, 1, txt_path, fs, env))

main_extract_text_from_txt(txt_path, fs, env) ==
    except_return_None(try_encodings(main_encodings, 1, txt_path, fs, env))

(***************************************************************************)
(* extract_text_from_pdf.  env.pdf_open is the exception pdfplumber.open   *)
(* raises (or NoExc); env.pages holds what extract_text() does on each      *)
(* page: tag "text" (it returns the str v), "none" (it returns None) or     *)
(* "raise" (it raises exc).                                                *)
(***************************************************************************)
\* if page_text: a str that is not empty
page_is_not_none(page) == page.tag = "text"
page_has_text(page) == page.tag = "text" /\ page.v # <<>>

\* the for loop: the parts collected, or the exception of the first page
\* that raises
RECURSIVE pdf_text_parts(_, _)
pdf_text_parts(pages, parts) ==
    IF pages = <<>> THEN [parts |-> parts, raised |-> NoExc]
    ELSE IF pages[1].tag = "raise" THEN [parts |-> parts, raised |-> pages[1].exc]
    ELSE IF page_has_text(pages[1])
         THEN pdf_text_parts(Tail(pages), Append(parts, pages[1].v))
    ELSE pdf_text_parts(Tail(pages), parts)

\* src/extract.py and src/main.py differ only in what they print
extract_text_from_pdf(pdf_path, fs, env) ==
    except_return_None(
        IF pdf_path \notin DOMAIN fs THEN Raise("FileNotFoundError", fs)
        ELSE IF env.pdf_open # NoExc THEN Raise(env.pdf_open, fs)
        ELSE LET loop == pdf_text_parts(env.pages, <<>>)
             IN  IF loop.raised # NoExc THEN Raise(loop.raised, fs)
                 ELSE Return(join(<<10, 10>>, loop.parts), fs))

(***************************************************************************)
(* extract_text_from_docx.  env.docx_open is the exception Document()      *)
(* raises (or NoExc), env.paragraphs the paragraph texts, env.tables the    *)
(* tables as rows of cell texts.                                           *)
(***************************************************************************)
\* if x.text.strip(): text_parts.append(x.text)
RECURSIVE non_blank(_)
non_blank(texts) ==
    IF texts = <<>> THEN <<>>
    ELSE IF strip(texts[1]) # <<>> THEN <<texts[1]>> \o non_blank(Tail(texts))
    ELSE non_blank(Tail(texts))

\* a sequence of sequences, end to end
RECURSIVE flatten(_)
flatten(ss) == IF ss = <<>> THEN <<>> ELSE ss[1] \o flatten(Tail(ss))

\* for table in doc.tables: for row in table.rows: for cell in row.cells
table_cells(tables) == flatten(flatten(tables))

extract_text_from_docx(docx_path, fs, env) ==
    except_return_None(
        IF docx_path \notin DOMAIN fs THEN Raise("FileNotFoundError", fs)
        ELSE IF env.docx_open # NoExc THEN Raise(env.docx_open, fs)
        ELSE Return(join(<<10, 10>>, non_blank(env.paragraphs)
                                      \o non_blank(table_cells(env.tables))),
                    fs))

main_extract_text_from_docx(docx_path, fs, env) ==
    except_return_None(
        IF docx_path \notin DOMAIN fs THEN Raise("FileNotFoundError", fs)
        ELSE IF env.docx_open # NoExc THEN Raise(env.docx_open, fs)
        ELSE Return(join(<<10, 10>>, non_blank(env.paragraphs)), fs))

(***************************************************************************)
(* extract_text_from_doc.  env.antiword is what running antiword does:     *)
(* "missing" (FileNotFoundError), "ok" (exit status 0, env.stdout),        *)
(* "fail" (another exit status) or "error" (another exception);            *)
(* env.tmpfile is the exception NamedTemporaryFile raises (or NoExc);      *)
(* env.libreoffice is "missing", "converted" (it writes env.converted to   *)
(* <outdir>/<stem>.txt) or "failed" (it writes nothing).                   *)
(***************************************************************************)
\* the name NamedTemporaryFile(suffix='.txt') picks: "/tmp/t.txt"
TmpPath == <<47, 116, 109, 112, 47, 116, 46, 116, 120, 116>>

\* os.path.join(outdir, name)
path_join(dir, name) ==
    IF dir = <<>> THEN name
    ELSE IF dir[Len(dir)] = 47 THEN dir \o name ELSE dir \o <<47>> \o name

\* subprocess.run(['libreoffice', ..., doc_path, '--outdir', outdir])
run_libreoffice(doc_path, outdir, fs, env) ==
    IF env.libreoffice = "missing" THEN Raise("FileNotFoundError", fs)
    ELSE IF env.libreoffice = "converted" /\ doc_path \in DOMAIN fs
    THEN Return(None, FsWrite(fs, path_join(outdir, stem(doc_path) \o ExtTxt),
                              env.converted))
    ELSE Return(None, fs)

\* "Способ 2": the inner try block, lines 126-143
doc_via_libreoffice(doc_path, fs, env) ==
    IF env.tmpfile # NoExc THEN Raise(env.tmpfile, fs)
    ELSE LET tmp_path == TmpPath
             fs1 == FsWrite(fs, tmp_path, <<>>)
             run == run_libreoffice(doc_path, dirname(tmp_path), fs1, env)
             txt_file == replace(doc_path, ExtDoc, ExtTxt)
         IN  IF run.raised # NoExc THEN run
             ELSE IF txt_file \in DOMAIN run.fs
             THEN LET rd == open_read(txt_file, run.fs, env, "utf-8", "ignore")
                  IN  IF rd.raised # NoExc THEN rd
                      ELSE [rd EXCEPT !.fs = FsRemove(run.fs, txt_file)]
             ELSE Return(None, run.fs)

extract_text_from_doc(doc_path, fs, env) ==
    except_return_None(
        IF env.antiword = "ok" THEN Return(env.stdout, fs)
        ELSE IF env.antiword = "error" THEN Raise("OSError", fs)
        ELSE LET r == doc_via_libreoffice(doc_path, fs, env)
             IN  \* except Exception as e: print; then return None
                 IF r.raised # NoExc /\ catches_Exception(r.raised)
                 THEN Return(None, r.fs)
                 ELSE r)

(***************************************************************************)
(* extract_text_from_file: src/extract.py, and src/main.py with its        *)
(* PDF_SUPPORT and DOCX_SUPPORT flags (env.pdf_support, env.docx_support). *)
(***************************************************************************)
extract_text_from_file(file_path, fs, env) ==
    except_return_None(
        LET file_extension == lower(suffix(file_path))
        IN  IF file_extension = ExtPdf
            THEN extract_text_from_pdf(file_path, fs, env)
            ELSE IF file_extension = ExtDocx
            THEN extract_text_from_docx(file_path, fs, env)
            ELSE IF file_extension = ExtDoc
            THEN extract_text_from_doc(file_path, fs, env)
            ELSE IF file_extension = ExtTxt
            THEN extract_text_from_txt(file_path, fs, env)
            ELSE Return(None, fs))

main_extract_text_from_file(file_path, fs, env) ==
    except_return_None(
        LET file_extension == lower(suffix(file_path))
        IN  IF file_extension = ExtPdf /\ env.pdf_support
            THEN extract_text_from_pdf(file_path, fs, env)
            ELSE IF file_extension = ExtDocx /\ env.docx_support
            THEN main_extract_text_from_docx(file_path, fs, env)
            ELSE IF file_extension = ExtTxt
            THEN main_extract_text_from_txt(file_path, fs, env)
            ELSE Return(None, fs))

(***************************************************************************)
(* generate_title_from_file and process_folder (src/extract.py).  The env  *)
(* of a file also holds what the model decodes to for it (env.decoded) and *)
(* the step of the generation that raises (env.fault, env.kind).           *)
(***************************************************************************)
\* lines 229-241: the first sentence, at most 25 words
title_postprocess(decoded) ==
    LET cleaned == strip_prefixes(decoded)
        first == IF \E i \in 1..Len(cleaned) : cleaned[i] = 46
                 THEN strip(split_sep(cleaned, 46)[1]) ELSE cleaned
    IN  strip(truncate_words(first, 25))

\* if not text / if title: None and "" are false
truthy(x) == x # None /\ x # <<>>

\* (the outcome of the extraction is bound once, as text)
generate_title_from_file(file_path, fs, env) ==
    CHOOSE x \in
        {IF text.raised # NoExc THEN text
         ELSE IF ~truthy(text.ret) THEN Return(None, text.fs)
         ELSE IF env.fault = "none"
         THEN Return(title_postprocess(env.decoded), text.fs)
         ELSE except_return_None(Raise(env.kind, text.fs)) :
         text \in {extract_text_from_file(file_path, fs, env)}} : TRUE

\* Path(folder_path).glob("*" + ext): the names of the folder, in directory
\* order, that end with ext; the match ignores case where the platform's
\* paths do (Windows)
glob(listing, ext, case_insensitive) ==
    SelectSeq(listing,
              LAMBDA name :
                  IF case_insensitive THEN endswith(lower(name), lower(ext))
                  ELSE endswith(name, ext))

supported_extensions == <<ExtPdf, ExtDocx, ExtDoc, ExtTxt>>

\* lines 263-266: for each extension the matches of "*ext" and of "*EXT"
RECURSIVE scan_folder(_, _, _)
scan_folder(listing, exts, case_insensitive) ==
    IF exts = <<>> THEN <<>>
    ELSE glob(listing, exts[1], case_insensitive)
         \o glob(listing, upper(exts[1]), case_insensitive)
         \o scan_folder(listing, Tail(exts), case_insensitive)

\* the record of lines 278-284; processed_at is the turn of the loop
batch_record(file_path, title, turn) ==
    [filename |-> basename(file_path), title |-> title, path |-> file_path,
     processed_at |-> turn, word_count |-> Len(split(title))]

(***************************************************************************)
(* Inputs of the calls.                                                    *)
(***************************************************************************)
\* "b c d e f"
FiveWords == <<98, 32, 99, 32, 100, 32, 101, 32, 102>>
\* "Report on annual results. Summary follows."
ReportOutput ==
    <<82, 101, 112, 111, 114, 116, 32, 111, 110, 32, 97, 110, 110, 117, 97,
      108, 32, 114, 101, 115, 117, 108, 116, 115, 46, 32, 83, 117, 109, 109,
      97, 114, 121, 32, 102, 111, 108, 108, 111, 119, 115, 46>>

Pieces == {<<97>>, <<32>>, <<46>>, <<10>>, FiveWords, PrefixShort, PrefixDocument}

RECURSIVE PieceStrings(_)
PieceStrings(n) ==
    IF n = 0 THEN {<<>>}
    ELSE LET shorter == PieceStrings(n - 1)
         IN  shorter \cup {s \o p : s \in shorter, p \in Pieces}

Decodeds == PieceStrings(MaxPieces) \cup {ReportOutput}

Texts == {None, <<>>, <<32>>, <<10, 32>>, <<97>>, <<32, 97, 32>>}

GenInputs ==
    \* every decoded output against the small ceilings, no fault
    [text : {<<97>>}, max_words : (1..MaxWordsGen) \cup {25},
     decoded : Decodeds, fault : {"none"}, kind : {"RuntimeError"}]
    \cup
    \* every text, with and without a fault at each step
    [text : Texts, max_words : {1, 25, 35},
     decoded : {<<>>, FiveWords, ReportOutput},
     fault : {"none"} \cup {GenSteps[i] : i \in 1..Len(GenSteps)},
     kind : ExceptionKinds]
    \cup
    \* the whole range of ceilings for the parameter derivation
    [text : {<<97>>}, max_words : (-MaxWordsParam)..MaxWordsParam,
     decoded : {ReportOutput}, fault : {"none"}, kind : {"RuntimeError"}]


(***************************************************************************)
(* Inputs of the extraction calls: the path, the files that exist and how  *)
(* the readers and the external tools behave.                              *)
(***************************************************************************)
\* "a.txt", "a.TXT", "a.pdf", "c.PDF", "a.docx", "a.doc", "a.DOC",
\* "/tmp/a.doc", "a.xls", "a"
PathTxt == <<97, 46, 116, 120, 116>>
PathTxtUpper == <<97, 46, 84, 88, 84>>
PathPdf == <<97, 46, 112, 100, 102>>
PathPdfUpper == <<99, 46, 80, 68, 70>>
PathDocx == <<97, 46, 100, 111, 99, 120>>
PathDoc == <<97, 46, 100, 111, 99>>
PathDocUpper == <<97, 46, 68, 79, 67>>
PathDocInTmp == <<47, 116, 109, 112, 47, 97, 46, 100, 111, 99>>
PathXls == <<97, 46, 120, 108, 115>>
PathNoSuffix == <<97>>

\* the bytes modelled: CR, "A", 0x98, 0x9F, 0xD0, 0xE0
Bytes == {13, 65, 152, 159, 208, 224}

RECURSIVE ByteStrings(_)
ByteStrings(n) ==
    IF n = 0 THEN {<<>>}
    ELSE LET shorter == ByteStrings(n - 1)
         IN  shorter \cup {Append(s, b) : s \in shorter, b \in Bytes}

\* what extract_text() may do on a page: "p1", "p2 x", "", None, an exception
PageOutcomes ==
    {[tag |-> "text", v |-> <<112, 49>>, exc |-> NoExc],
     [tag |-> "text", v |-> <<112, 50, 32, 120>>, exc |-> NoExc],
     [tag |-> "text", v |-> <<>>, exc |-> NoExc],
     [tag |-> "none", v |-> None, exc |-> NoExc],
     [tag |-> "raise", v |-> None, exc |-> "RuntimeError"]}

RECURSIVE PageSeqs(_)
PageSeqs(n) ==
    IF n = 0 THEN {<<>>}
    ELSE LET shorter == PageSeqs(n - 1)
         IN  shorter \cup {Append(s, p) : s \in shorter, p \in PageOutcomes}

\* every reader and tool working, on a document with no content
DefaultEnv ==
    [open_fault |-> NoExc, pdf_open |-> NoExc, pages |-> <<>>,
     docx_open |-> NoExc, paragraphs |-> <<>>, tables |-> <<>>,
     antiword |-> "ok", stdout |-> <<120>>, tmpfile |-> NoExc,
     libreoffice |-> "converted", converted |-> <<65>>,
     pdf_support |-> TRUE, docx_support |-> TRUE]

OneFile(path, content) == [q \in {path} |-> content]

TxtCalls ==
    {[path |-> p, files |-> OneFile(p, b),
      env |-> [DefaultEnv EXCEPT !.open_fault = f]] :
        p \in {PathTxt, PathTxtUpper}, b \in ByteStrings(MaxBytes),
        f \in {NoExc, "OSError"}}

PdfCalls ==
    {[path |-> p, files |-> OneFile(p, <<65>>),
      env |-> [DefaultEnv EXCEPT !.pages = ps, !.pdf_open = f,
                                 !.pdf_support = sup]] :
        p \in {PathPdf, PathPdfUpper}, ps \in PageSeqs(MaxPages),
        f \in {NoExc, "OSError"}, sup \in BOOLEAN}

\* paragraphs "", "  ", "x" and one table of two rows
DocxCalls ==
    {[path |-> PathDocx, files |-> OneFile(PathDocx, <<65>>),
      env |-> [DefaultEnv EXCEPT !.paragraphs = ps, !.tables = ts,
                                 !.docx_open = f, !.docx_support = sup]] :
        ps \in {<<>>, <<<<>>, <<32, 32>>, <<120>>>>, <<<<120>>, <<99, 32, 100>>>>},
        ts \in {<<>>, << << <<<<120>>, <<32>>>>, <<<<99, 32, 100>>>> >> >>},
        f \in {NoExc, "RuntimeError"}, sup \in BOOLEAN}

DocCalls ==
    {[path |-> p,
      files |-> IF sibling
                THEN [q \in {p, replace(lower(p), ExtDoc, ExtTxt)} |->
                         IF q = p THEN <<208, 65>> ELSE <<65, 65>>]
                ELSE OneFile(p, <<208, 65>>),
      env |-> [DefaultEnv EXCEPT !.antiword = aw, !.tmpfile = tf,
                                 !.libreoffice = lo]] :
        p \in {PathDoc, PathDocUpper, PathDocInTmp}, sibling \in BOOLEAN,
        aw \in {"missing", "ok", "fail", "error"}, tf \in {NoExc, "OSError"},
        lo \in {"missing", "converted", "failed"}}

OtherCalls ==
    {[path |-> p, files |-> fl, env |-> DefaultEnv] :
        p \in {PathXls, PathNoSuffix, PathTxt, PathPdf, PathDocx},
        fl \in {<<>>}}

ExtractCalls == TxtCalls \cup PdfCalls \cup DocxCalls \cup DocCalls \cup OtherCalls

(***************************************************************************)
(* Inputs of process_folder: the files of the folder in directory order,   *)
(* each with its content and env, the platform's glob, the output file.    *)
(***************************************************************************)
\* "results.json"
OutputFile == <<114, 101, 115, 117, 108, 116, 115, 46, 106, 115, 111, 110>>

GenEnv(env, decoded, fault) ==
    env @@ [decoded |-> decoded, fault |-> fault, kind |-> "RuntimeError"]

\* a.txt (valid), b.pdf (unreadable), c.PDF, d.txt (empty), e.txt (the title
\* comes out empty), f.docx (the generation raises), g.Pdf, a.doc, a.xls
FolderFiles ==
    {[name |-> PathTxt, content |-> <<65>>,
      env |-> GenEnv(DefaultEnv, FiveWords, "none")],
     [name |-> <<98, 46, 112, 100, 102>>, content |-> <<152>>,
      env |-> GenEnv([DefaultEnv EXCEPT !.pdf_open = "OSError"],
                     FiveWords, "none")],
     [name |-> PathPdfUpper, content |-> <<65>>,
      env |-> GenEnv([DefaultEnv EXCEPT !.pages = <<[tag |-> "text",
                                                    v |-> <<112, 49>>,
                                                    exc |-> NoExc]>>],
                     ReportOutput, "none")],
     [name |-> <<100, 46, 116, 120, 116>>, content |-> <<>>,
      env |-> GenEnv(DefaultEnv, FiveWords, "none")],
     [name |-> <<101, 46, 116, 120, 116>>, content |-> <<65>>,
      env |-> GenEnv(DefaultEnv, <<46, 32, 97>>, "none")],
     [name |-> <<102, 46, 100, 111, 99, 120>>, content |-> <<65>>,
      env |-> GenEnv([DefaultEnv EXCEPT !.paragraphs = <<<<120>>>>],
                     FiveWords, "generate")],
     [name |-> <<103, 46, 80, 100, 102>>, content |-> <<65>>,
      env |-> GenEnv([DefaultEnv EXCEPT !.pages = <<[tag |-> "text",
                                                    v |-> <<112, 49>>,
                                                    exc |-> NoExc]>>],
                     FiveWords, "none")],
     [name |-> PathDoc, content |-> <<208, 65>>,
      env |-> GenEnv([DefaultEnv EXCEPT !.antiword = "missing"],
                     FiveWords, "none")],
     [name |-> PathXls, content |-> <<65>>,
      env |-> GenEnv(DefaultEnv, FiveWords, "none")]}

\* the folders: up to n files, in every directory order
RECURSIVE Folders(_)
Folders(n) ==
    IF n = 0 THEN {<<>>}
    ELSE LET smaller == Folders(n - 1)
         IN  smaller \cup
             UNION {{Append(d, f) :
                        f \in {g \in FolderFiles :
                                 \A i \in 1..Len(d) : d[i].name # g.name}} :
                    d \in smaller}

FolderCalls ==
    [folder : Folders(MaxFiles), case_insensitive : BOOLEAN,
     output_file : {None, OutputFile}, save_fault : {NoExc, "OSError"}]

(***************************************************************************)
(* State.                                                                  *)
(***************************************************************************)
VARIABLES
    pc,        \* "call": the arguments are bound; "done": the call returned
    args,      \* the arguments and the collaborators' behaviour of the call
    out,       \* what the call returned and did
    fs,        \* the file system: path -> content of the file there
    all_files, \* process_folder: the paths the scan collected
    file_index,\* process_folder: the entry of all_files the loop is at
    titles,    \* process_folder: what generate_title_from_file returned
               \* for each entry of all_files processed so far
    results    \* process_folder: the records appended so far

vars == <<pc, args, out, fs, all_files, file_index, titles, results>>
folderVars == <<all_files, file_index, titles, results>>

\* generate_annotation is about to be called
Init ==
    /\ pc = "call"
    /\ args \in GenInputs
    /\ out = None
    /\ fs = <<>>
    /\ all_files = <<>> /\ file_index = 0 /\ titles = <<>> /\ results = <<>>

GenerateAnnotation ==
    /\ pc = "call"
    /\ out' = generate_annotation(args.text, args.max_words, args.decoded,
                                  args.fault, args.kind)
    /\ pc' = "done"
    /\ UNCHANGED <<args, fs, folderVars>>

Next == GenerateAnnotation

Spec == Init /\ [][Next]_vars

\* extract_text_from_file is about to be called
InitExtract ==
    /\ pc = "call"
    /\ \E c \in ExtractCalls :
          /\ args = [path |-> c.path, env |-> c.env, files |-> c.files]
          /\ fs = c.files
    /\ out = None
    /\ all_files = <<>> /\ file_index = 0 /\ titles = <<>> /\ results = <<>>

\* src/extract.py
ExtractTextFromFile ==
    /\ pc = "call"
    /\ \E r \in {extract_text_from_file(args.path, fs, args.env)} :
           /\ out' = [module |-> "extract", ret |-> r.ret, raised |-> r.raised,
                      encoding |-> r.encoding, errors |-> r.errors]
           /\ fs' = r.fs
    /\ pc' = "done"
    /\ UNCHANGED <<args, folderVars>>

\* src/main.py
MainExtractTextFromFile ==
    /\ pc = "call"
    /\ \E r \in {main_extract_text_from_file(args.path, fs, args.env)} :
           /\ out' = [module |-> "main", ret |-> r.ret, raised |-> r.raised,
                      encoding |-> r.encoding, errors |-> r.errors]
           /\ fs' = r.fs
    /\ pc' = "done"
    /\ UNCHANGED <<args, folderVars>>

NextExtract == ExtractTextFromFile \/ MainExtractTextFromFile

SpecExtract == InitExtract /\ [][NextExtract]_vars

\* process_folder is about to be called on a folder
InitFolder ==
    /\ pc = "call"
    /\ args \in FolderCalls
    /\ fs = [p \in {args.folder[i].name : i \in 1..Len(args.folder)} |->
                args.folder[CHOOSE i \in 1..Len(args.folder) :
                                args.folder[i].name = p].content]
    /\ out = None
    /\ all_files = <<>> /\ file_index = 0 /\ titles = <<>> /\ results = <<>>

EnvOf(path) ==
    args.folder[CHOOSE i \in 1..Len(args.folder) : args.folder[i].name = path].env

\* lines 259-268: results = [], the scan
ScanFolder ==
    /\ pc = "call"
    /\ all_files' = scan_folder([i \in 1..Len(args.folder) |-> args.folder[i].name],
                                supported_extensions, args.case_insensitive)
    /\ file_index' = 1
    /\ results' = <<>>
    /\ pc' = "loop"
    /\ UNCHANGED <<args, out, fs, titles>>

\* lines 270-290: one turn of the loop over all_files
ProcessFile ==
    /\ pc = "loop"
    /\ file_index <= Len(all_files)
    /\ \E file_path \in {all_files[file_index]} :
       \E r \in {generate_title_from_file(file_path, fs, EnvOf(file_path))} :
           /\ fs' = r.fs
           /\ titles' = Append(titles, r.ret)
           /\ results' =
                 IF r.raised = NoExc /\ truthy(r.ret)
                 THEN Append(results, batch_record(file_path, r.ret, file_index))
                 ELSE results
           /\ IF r.raised = NoExc
              THEN /\ file_index' = file_index + 1
                   /\ UNCHANGED <<pc, out>>
              ELSE /\ out' = [ret |-> None, raised |-> r.raised]
                   /\ pc' = "done"
                   /\ UNCHANGED file_index
    /\ UNCHANGED <<args, all_files>>

\* lines 292-298: the results are saved when there are any, and returned
SaveAndReturn ==
    /\ pc = "loop"
    /\ file_index > Len(all_files)
    /\ IF args.output_file # None /\ args.output_file # <<>> /\ results # <<>>
       THEN IF args.save_fault # NoExc
            THEN /\ out' = [ret |-> None, raised |-> args.save_fault]
                 /\ UNCHANGED fs
            ELSE /\ out' = [ret |-> results, raised |-> NoExc]
                 /\ fs' = FsWrite(fs, args.output_file, results)
       ELSE /\ out' = [ret |-> results, raised |-> NoExc]
            /\ UNCHANGED fs
    /\ pc' = "done"
    /\ UNCHANGED <<args, all_files, file_index, titles, results>>

NextFolder == ScanFolder \/ ProcessFile \/ SaveAndReturn

SpecFolder == InitFolder /\ [][NextFolder]_vars

(***************************************************************************)
(* Properties of generate_annotation.                                      *)
(***************************************************************************)
\* the number of whitespace-delimited tokens of a string, counted by the
\* positions where a token starts
CountTokens(s) ==
    Cardinality({i \in 1..Len(s) :
                    ~IsSpace(s[i]) /\ (i = 1 \/ IsSpace(s[i - 1]))})

Blank(text) == text = None \/ \A i \in 1..Len(text) : IsSpace(text[i])

Returned == pc = "done" /\ out.raised = NoExc

\* "Report on annual results"
ReportFirstFragment ==
    <<82, 101, 112, 111, 114, 116, 32, 111, 110, 32, 97, 110, 110, 117, 97,
      108, 32, 114, 101, 115, 117, 108, 116, 115>>
\* "Report on annual results.  Summary follows"
ReportTwoFragments ==
    <<82, 101, 112, 111, 114, 116, 32, 111, 110, 32, 97, 110, 110, 117, 97,
      108, 32, 114, 101, 115, 117, 108, 116, 115, 46, 32, 32, 83, 117, 109,
      109, 97, 114, 121, 32, 102, 111, 108, 108, 111, 119, 115>>

\* C1: for non-blank text, max_words >= 1 and any decoded output, a call that
\* returns with no exception having occurred returns an annotation of at most
\* max_words whitespace-delimited tokens.
C1_AnnotationWithinMaxWords ==
    (Returned /\ ~Blank(args.text) /\ args.max_words >= 1 /\ ~out.caught)
        => CountTokens(out.ret) <= args.max_words

\* C1 witness: a raw output longer than max_words was cut to exactly max_words.
C1_Witness ==
    /\ Returned /\ ~Blank(args.text) /\ ~out.caught
    /\ args.max_words = 3
    /\ CountTokens(args.decoded) > 3
    /\ CountTokens(out.ret) = 3

\* C3 as stated: the decoded output "Report on annual results. Summary
\* follows." with max_words = 25 returns "Report on annual results".
C3_ReportKeepsFirstFragment ==
    (Returned /\ ~Blank(args.text) /\ ~out.caught
        /\ args.decoded = ReportOutput /\ args.max_words = 25)
        => out.ret = ReportFirstFragment

\* C3 amended: the first fragment has four words, fewer than five, so the two
\* first fragments (six words <= 25) are kept, joined by ". ": the call
\* returns "Report on annual results.  Summary follows".
C3_ReportKeepsTwoFragments ==
    (Returned /\ ~Blank(args.text) /\ ~out.caught
        /\ args.decoded = ReportOutput /\ args.max_words = 25)
        => /\ out.ret = ReportTwoFragments
           /\ CountTokens(ReportFirstFragment) = 4

\* C3 witness: the call on that output with max_words = 25 has returned.
C3_Witness ==
    /\ Returned /\ ~Blank(args.text) /\ ~out.caught
    /\ args.decoded = ReportOutput /\ args.max_words = 25
    /\ startswith(out.ret, ReportFirstFragment)

\* round(num/den), den > 0, halves to the even neighbour
RoundHalfEven(num, den) ==
    LET q == num \div den
        r == num % den
    IN  IF 2 * r < den THEN q
        ELSE IF 2 * r > den THEN q + 1
        ELSE IF q % 2 = 0 THEN q ELSE q + 1

\* C4 as stated: for max_words >= 1 the min_length passed to the model is
\* max(15, round(0.3 * max_words)).
C4_MinLengthIsRounded ==
    (pc = "done" /\ out.generate_calls # <<>> /\ args.max_words >= 1)
        => out.generate_calls[1].min_length = Max(15, RoundHalfEven(3 * args.max_words, 10))

\* C4 amended: for max_words >= 1 the min_length passed to the model is
\* max(15, floor(0.3 * max_words)): the product is truncated, not rounded.
C4_MinLengthIsTruncated ==
    (pc = "done" /\ out.generate_calls # <<>> /\ args.max_words >= 1)
        => LET m == out.generate_calls[1].min_length
           IN  IF 3 * args.max_words < 160 THEN m = 15
               ELSE 10 * m <= 3 * args.max_words /\ 3 * args.max_words < 10 * (m + 1)

\* C4 witness: max_words = 52, where 0.3 * 52 = 15.6 is passed as 15.
C4_Witness ==
    /\ pc = "done" /\ out.generate_calls # <<>>
    /\ args.max_words = 52
    /\ out.generate_calls[1].min_length = 15

\* C5: max_words <= 15 selects (40, 1.2), 15 < max_words <= 25 (55, 1.0),
\* 25 < max_words <= 35 (70, 0.9), max_words > 35 (85, 0.8); so 10 gives
\* (40, 1.2) and 40 gives (85, 0.8).  length_penalty is in tenths.
C5_TierSelection ==
    (pc = "done" /\ out.generate_calls # <<>>)
        => LET w == args.max_words
               sel == <<out.generate_calls[1].max_length, out.generate_calls[1].length_penalty>>
           IN  /\ w <= 15 => sel = <<40, 12>>
               /\ (15 < w /\ w <= 25) => sel = <<55, 10>>
               /\ (25 < w /\ w <= 35) => sel = <<70, 9>>
               /\ w > 35 => sel = <<85, 8>>
               /\ w = 10 => sel = <<40, 12>>
               /\ w = 40 => sel = <<85, 8>>

\* C5 witness: the boundary max_words = 35 selected the third tier.
C5_Witness ==
    /\ pc = "done" /\ out.generate_calls # <<>>
    /\ args.max_words = 35
    /\ out.generate_calls[1].max_length = 70 /\ out.generate_calls[1].length_penalty = 9

\* C6: for text that is None, empty or only whitespace the call returns the
\* "no text" sentinel, and neither the tokenizer nor the model is loaded or
\* invoked, whatever max_words is.
C6_BlankTextShortCircuits ==
    (pc = "done" /\ Blank(args.text))
        => /\ out.raised = NoExc
           /\ out.ret = NoTextSentinel
           /\ ~out.tokenizer_loaded
           /\ ~out.model_loaded
           /\ out.context = None
           /\ out.generate_calls = <<>>

\* C6 witness: a whitespace-only text got the sentinel.
C6_Witness ==
    /\ pc = "done"
    /\ args.text = <<10, 32>>
    /\ out.ret = NoTextSentinel

\* C7: for non-blank text, an exception at any step after the blank-text
\* check makes the call return the "generation error" sentinel, and no
\* exception reaches the caller.
C7_ExceptionsBecomeSentinel ==
    (pc = "done" /\ ~Blank(args.text) /\ args.fault # "none")
        => /\ out.raised = NoExc
           /\ out.ret = GenerationErrorSentinel

\* C7 witness: decoding raised after the model had run, and the sentinel came
\* back.
C7_Witness ==
    /\ pc = "done" /\ ~Blank(args.text)
    /\ args.fault = "decode" /\ args.kind = "RuntimeError"
    /\ out.generate_calls # <<>>
    /\ out.ret = GenerationErrorSentinel

(***************************************************************************)
(* Properties of the extractors.                                           *)
(***************************************************************************)
IsStr(x) == x # None /\ \A i \in 1..Len(x) : x[i] >= 0

SupportedExtensions == {ExtPdf, ExtDocx, ExtDoc, ExtTxt}

HasSupportedExtension(path) ==
    \E e \in SupportedExtensions :
        endswith(lower(path), e) /\ Len(basename(path)) > Len(e)

\* C2: for every path with the extension .pdf, .docx, .doc or .txt in any
\* letter case and every failure of a reader, an external tool or the file
\* system, extract_text_from_file returns a string or None and raises nothing.
C2_ExtractNeverRaises ==
    (pc = "done" /\ HasSupportedExtension(args.path))
        => /\ out.raised = NoExc
           /\ out.ret = None \/ IsStr(out.ret)

\* C2 witness: a page of a PDF raised inside the reader, and None came back.
C2_Witness ==
    /\ pc = "done" /\ out.module = "extract"
    /\ args.path = PathPdf
    /\ Len(args.env.pages) = 2
    /\ args.env.pages[1].tag = "text" /\ args.env.pages[2].tag = "raise"
    /\ out.raised = NoExc /\ out.ret = None

IsTxtRead ==
    /\ pc = "done"
    /\ lower(suffix(args.path)) = ExtTxt
    /\ args.path \in DOMAIN fs
    /\ args.env.open_fault = NoExc

\* C8: extract_text_from_txt returns the text decoded by the first encoding,
\* in the order utf-8, cp1251, koi8-r(, iso-8859-1), that decodes the whole
\* file; it reads lossily only when no listed encoding decodes it; content
\* valid in cp1251 and invalid in UTF-8 comes back decoded as cp1251.
C8_FirstEncodingThatDecodes ==
    IsTxtRead =>
        LET content == fs[args.path]
            listed == IF out.module = "extract"
                      THEN {"utf-8", "cp1251", "koi8-r", "iso-8859-1"}
                      ELSE {"utf-8", "cp1251", "koi8-r"}
            first == IF Utf8Decode(content, "strict").ok THEN "utf-8"
                     ELSE IF \A i \in 1..Len(content) : Cp1251Defined(content[i])
                          THEN "cp1251"
                     ELSE "koi8-r"
        IN  /\ out.raised = NoExc
            /\ out.errors = "ignore" =>
                  \A e \in listed : ~Decode(content, e, "strict").ok
            /\ out.errors = "strict" =>
                  /\ out.encoding = first
                  /\ out.ret = universal_newlines(Decode(content, first, "strict").text)
            /\ out.errors \in {"strict", "ignore"}

\* C8 witness: the byte 0xE0, invalid as UTF-8, came back as the cp1251
\* letter U+0430.
C8_Witness ==
    /\ IsTxtRead
    /\ fs[args.path] = <<224>>
    /\ out.encoding = "cp1251"
    /\ out.ret = <<1072>>

IsPdfRead ==
    /\ pc = "done"
    /\ lower(suffix(args.path)) = ExtPdf
    /\ out.module = "main" => args.env.pdf_support
    /\ args.path \in DOMAIN fs
    /\ args.env.pdf_open = NoExc
    /\ \A i \in 1..Len(args.env.pages) : args.env.pages[i].tag # "raise"

\* the pages that yield non-empty text
TextPages(pages) ==
    {i \in 1..Len(pages) : pages[i].tag = "text" /\ Len(pages[i].v) > 0}

\* where the text of page i starts in the result: after the texts of the
\* earlier text pages, each followed by a blank-line separator
RECURSIVE SegmentOffset(_, _)
SegmentOffset(pages, i) ==
    IF i <= 1 THEN 0
    ELSE SegmentOffset(pages, i - 1)
         + (IF i - 1 \in TextPages(pages) THEN Len(pages[i - 1].v) + 2 ELSE 0)

\* C10: for a PDF with N pages of which M yield non-empty text,
\* extract_text_from_pdf returns exactly those M page texts, in page order,
\* joined by a blank line, nothing coming from the other N - M pages; with
\* M = 0 it returns the empty string, not None.
C10_PdfJoinsTextPages ==
    IsPdfRead =>
        LET pages == args.env.pages
            M == Cardinality(TextPages(pages))
            total == SegmentOffset(pages, Len(pages) + 1)
        IN  /\ out.raised = NoExc
            /\ IsStr(out.ret)
            /\ M = 0 => out.ret = <<>>
            /\ M > 0 => Len(out.ret) = total - 2
            /\ \A i \in TextPages(pages) :
                  LET at == SegmentOffset(pages, i)
                  IN  /\ SubSeq(out.ret, at + 1, at + Len(pages[i].v)) = pages[i].v
                      /\ at > 0 => SubSeq(out.ret, at - 1, at) = <<10, 10>>

\* C10 witness: of three pages the second yields None, and the two texts
\* came back joined by one blank line.
C10_Witness ==
    /\ IsPdfRead
    /\ Len(args.env.pages) = 3
    /\ args.env.pages[1].v = <<112, 49>>
    /\ args.env.pages[2].tag = "none"
    /\ args.env.pages[3].v = <<112, 50, 32, 120>>
    /\ out.ret = <<112, 49, 10, 10, 112, 50, 32, 120>>

(***************************************************************************)
(* Properties of process_folder.                                           *)
(***************************************************************************)
FolderReturned == pc = "done" /\ out.raised = NoExc

FolderNames == {args.folder[i].name : i \in 1..Len(args.folder)}

ScannedNames == {all_files[i] : i \in 1..Len(all_files)}

\* the title generation of a scanned file succeeded: some turn of the loop
\* on it got a title
TitleSucceeded(name) ==
    \E i \in 1..Len(all_files) : all_files[i] = name /\ truthy(titles[i])

RecordsOf(name) == {i \in 1..Len(results) : results[i].path = name}

\* C9 as stated: the list process_folder returns holds exactly one record for
\* each scanned file whose title generation succeeded and none for a file
\* whose extraction or generation failed; a folder with one valid TXT and one
\* unreadable PDF yields exactly one record, the TXT's.
C9_OneRecordPerSuccessfulFile ==
    FolderReturned =>
        /\ out.ret = results
        /\ \A name \in FolderNames :
              Cardinality(RecordsOf(name)) =
                  IF name \in ScannedNames /\ TitleSucceeded(name) THEN 1 ELSE 0
        /\ FolderNames = {PathTxt, <<98, 46, 112, 100, 102>>} =>
              Len(out.ret) = 1 /\ out.ret[1].filename = PathTxt

\* C9 holds where the glob is case-sensitive: each file is scanned once.
C9_HoldsWhenGlobIsCaseSensitive ==
    ~args.case_insensitive => C9_OneRecordPerSuccessfulFile

(***************************************************************************)
(* C11, C12: the file system after extract_text_from_file, compared with   *)
(* args.files, the file system the call started from.                      *)
(***************************************************************************)
ExtractReturned == pc = "done" /\ out.raised = NoExc

\* the call went through extract_text_from_doc of src/extract.py
IsDocRead ==
    /\ out.module = "extract"
    /\ lower(suffix(args.path)) = ExtDoc

\* antiword is absent or exits non-zero, so lines 125-146 run
TookConverterFallback ==
    /\ IsDocRead
    /\ args.env.antiword \in {"missing", "fail"}

\* files present at the return that did not exist when the call started
CreatedAndLeft == DOMAIN fs \ DOMAIN args.files

\* C11: whenever extract_text_from_doc takes the office-suite converter
\* fallback, every temporary file it created during the call has been
\* deleted by the time it returns, whether the conversion output was found
\* or not.  Violated: NamedTemporaryFile(delete=False) leaves tmp_path.
C11_TemporaryFilesDeleted ==
    (ExtractReturned /\ TookConverterFallback) => CreatedAndLeft = {}

\* what the code does instead: once the temporary file has been created it is
\* still there at the return, found or not
C11_TmpPathIsLeft ==
    (ExtractReturned /\ TookConverterFallback /\ args.env.tmpfile = NoExc)
        => TmpPath \in CreatedAndLeft

\* the file at the path given to the call is there with the same content
SourceUntouched ==
    args.path \in DOMAIN args.files
        => /\ args.path \in DOMAIN fs
           /\ fs[args.path] = args.files[args.path]

\* C12: extraction never deletes or modifies the source document: for every
\* path, every extension letter case (including .DOC) and every combination
\* of external-tool availability and exit status, the file at the path given
\* to extract_text_from_file still exists with unchanged content after the
\* call returns.  Violated for a.DOC: txt_file equals doc_path and is removed.
C12_SourceDocumentUntouched ==
    ExtractReturned => SourceUntouched

\* the replace of line 135 finds no '.doc' in the path, so txt_file names the
\* source document itself
TxtFileIsSource ==
    /\ TookConverterFallback
    /\ replace(args.path, ExtDoc, ExtTxt) = args.path

\* the source document is untouched in every call but those
C12_UntouchedUnlessTxtFileIsSource ==
    (ExtractReturned /\ ~TxtFileIsSource) => SourceUntouched

====
